---- MODULE Spec2Model ----
(***************************************************************************)
(* A model of the receipt relay of aurora-receipt-server.                  *)
(*                                                                         *)
(*   src/server.cjs        determineSubscriptionStatus and the             *)
(*                         POST /verify-receipt handler                    *)
(*   src/unnamed/part_000  an earlier revision of the same handler         *)
(*                                                                         *)
(* JavaScript values are modelled by tagged records, so that a field can   *)
(* hold a number, undefined, NaN or Infinity without mixing TLA+ types.    *)
(***************************************************************************)
EXTENDS Integers, Sequences, FiniteSets, TLC

VARIABLES
    transactions,   \* resolver: the argument of determineSubscriptionStatus
    now,            \* resolver: the value Date.now() returns at line 99
    subscription,   \* resolver: what the call returned (or that it threw)
    pc,             \* handler: per request, where the async handler stands
    body,           \* handler: per request, req.body
    timestamp,      \* handler: per request, nowIso() taken at line 114
    calls,          \* handler: per request, the outbound axios.post calls so far
    replies,        \* handler: per request, the upstream response bodies received
    res,            \* handler: per request, the HTTP responses sent
    clock           \* the wall clock

vars == <<transactions, now, subscription, pc, body, timestamp, calls, replies, res, clock>>

resolverVars == <<transactions, now, subscription>>
handlerVars == <<pc, body, timestamp, calls, replies, res, clock>>

(***************************************************************************)
(* Bounds of the model.                                                    *)
(***************************************************************************)
MaxLen == 3         \* longest latest_receipt_info array given to the resolver
MaxExpiry == 3      \* largest finite expires_date_ms
MaxNow == 2         \* largest Date.now() of a resolver evaluation
MaxClock == 1       \* largest wall-clock reading while requests are handled

(***************************************************************************)
(* JavaScript numbers and the values of an expires_date_ms field.          *)
(***************************************************************************)
Num(n) == [t |-> "number", n |-> n]
NaN == [t |-> "NaN", n |-> 0]
PosInfinity == [t |-> "Infinity", n |-> 0]
\* the field is absent (undefined) or null
Missing == [t |-> "undefined", n |-> 0]
\* a string that is no number, such as "abc": Number("abc") is NaN
NonNumeric == [t |-> "string", n |-> 0]
\* the JSON number 1e999 or the string "Infinity": Number(...) is Infinity
Overflow == [t |-> "Infinity", n |-> 1]

ExpiryValues ==
    {Missing, NonNumeric, Overflow} \cup {Num(n) : n \in -1..MaxExpiry}

\* Number(x.expires_date_ms || 0)
ExpiryNumber(v) ==
    CASE v.t = "undefined" -> Num(0)
      [] v.t = "number" -> Num(v.n)
      [] v.t = "string" -> NaN
      [] OTHER -> PosInfinity

IsFinite(x) == x.t = "number"

\* the sign of x - y in IEEE arithmetic, "NaN" when the difference is NaN
Minus(x, y) ==
    CASE x.t = "NaN" \/ y.t = "NaN" -> "NaN"
      [] x.t = "Infinity" /\ y.t = "Infinity" -> "NaN"
      [] x.t = "Infinity" -> "positive"
      [] y.t = "Infinity" -> "negative"
      [] x.n > y.n -> "positive"
      [] x.n < y.n -> "negative"
      [] OTHER -> "zero"

\* x > y on numbers; false when either is NaN
Greater(x, y) ==
    CASE x.t = "NaN" \/ y.t = "NaN" -> FALSE
      [] x.t = "Infinity" -> y.t # "Infinity"
      [] y.t = "Infinity" -> FALSE
      [] OTHER -> x.n > y.n

(***************************************************************************)
(* Transactions: the entries of latest_receipt_info.                       *)
(***************************************************************************)
NullEntry == [isNull |-> TRUE]
IsNull(e) == "isNull" \in DOMAIN e
Transaction(p, v) == [product_id |-> p, expires_date_ms |-> v]

(***************************************************************************)
(* The argument of determineSubscriptionStatus: an array of entries, or    *)
(* undefined, null, or a value that is no array (an object, a string).     *)
(***************************************************************************)
Array(items) == [kind |-> "array", items |-> items]
UndefinedValue == [kind |-> "undefined", items |-> <<>>]
NullValue == [kind |-> "null", items |-> <<>>]
NonArrayValue == [kind |-> "object", items |-> <<>>]

\* the sort comparator of lines 93-97: bExpiry - aExpiry
comparator(a, b) ==
    Minus(ExpiryNumber(b.expires_date_ms), ExpiryNumber(a.expires_date_ms))

\* Array.prototype.sort calls the comparator and reads a NaN result as 0
SortCompare(a, b) ==
    LET v == comparator(a, b)
    IN  CASE v = "negative" -> -1
          [] v = "positive" -> 1
          [] OTHER -> 0

(***************************************************************************)
(* Array.prototype.sort as Node's V8 runs it on an array shorter than 64   *)
(* entries: count the run the array starts with (reversing it when it is   *)
(* strictly descending under the comparator), then binary-insert the rest. *)
(* work is the array of positions of the original entries.                 *)
(***************************************************************************)
RECURSIVE RunEnd(_, _, _, _)
RunEnd(items, work, idx, descending) ==
    IF idx > Len(work) THEN idx - 1
    ELSE LET order == SortCompare(items[work[idx]], items[work[idx - 1]])
         IN  IF (descending /\ order >= 0) \/ (~descending /\ order < 0)
             THEN idx - 1
             ELSE RunEnd(items, work, idx + 1, descending)

CountAndMakeRun(items, work) ==
    LET descending == SortCompare(items[work[2]], items[work[1]]) < 0
        runLength == RunEnd(items, work, 3, descending)
    IN  [runLength |-> runLength,
         work |-> IF descending
                  THEN [i \in 1..Len(work) |->
                          IF i <= runLength THEN work[runLength + 1 - i] ELSE work[i]]
                  ELSE work]

RECURSIVE BinarySearch(_, _, _, _, _)
BinarySearch(items, work, pivot, left, right) ==
    IF left >= right THEN left
    ELSE LET mid == left + ((right - left) \div 2)
         IN  IF SortCompare(items[pivot], items[work[mid]]) < 0
             THEN BinarySearch(items, work, pivot, left, mid)
             ELSE BinarySearch(items, work, pivot, mid + 1, right)

RECURSIVE BinaryInsertionSort(_, _, _)
BinaryInsertionSort(items, work, start) ==
    IF start > Len(work) THEN work
    ELSE LET pivot == work[start]
             left == BinarySearch(items, work, pivot, 1, start)
             moved == [i \in 1..Len(work) |->
                         IF i < left THEN work[i]
                         ELSE IF i = left THEN pivot
                         ELSE IF i <= start THEN work[i - 1]
                         ELSE work[i]]
         IN  BinaryInsertionSort(items, moved, start + 1)

\* [...latestReceiptInfo].sort(comparator): the positions in sorted order
sortedByExpiry(items) ==
    LET identity == [i \in 1..Len(items) |-> i]
    IN  IF Len(items) < 2 THEN identity
        ELSE LET run == CountAndMakeRun(items, identity)
             IN  BinaryInsertionSort(items, run.work, run.runLength + 1)

\* isActive with the comparison weakened to >=: an expiry equal to the
\* evaluation time would still count
isActiveInclusive(entry, t) ==
    LET expiresAt == ExpiryNumber(entry.expires_date_ms)
    IN  IsFinite(expiresAt) /\ ~Greater(Num(t), expiresAt)

\* isActive written as "not yet past", without the finiteness test:
\* !(expiresAt <= now), which a NaN expiry passes
isActiveUnlessPast(entry, t) ==
    LET expiresAt == ExpiryNumber(entry.expires_date_ms)
    IN  ~(expiresAt.t # "NaN" /\ ~Greater(expiresAt, Num(t)))

\* the callback of find, lines 101-104
isActive(entry, t) ==
    LET expiresAt == ExpiryNumber(entry.expires_date_ms)
    IN  IsFinite(expiresAt) /\ Greater(expiresAt, Num(t))

(***************************************************************************)
(* Reading a.expires_date_ms of a null entry throws a TypeError. sort      *)
(* calls the comparator on every entry of an array of two or more; find    *)
(* calls its callback on the entries in sorted order until one is active.  *)
(***************************************************************************)
SortThrows(items) ==
    Len(items) >= 2 /\ \E i \in 1..Len(items) : IsNull(items[i])

FindThrows(items, order, t) ==
    \E i \in 1..Len(order) :
        /\ IsNull(items[order[i]])
        /\ \A j \in 1..(i - 1) : ~isActive(items[order[j]], t)

Threw == [threw |-> TRUE]

\* determineSubscriptionStatus without the Array.isArray guard of line 89:
\* spreading a value that is no array throws
determineSubscriptionStatusUnguarded(latestReceiptInfo, t) ==
    LET arg == IF latestReceiptInfo.kind = "undefined" THEN Array(<<>>)
               ELSE latestReceiptInfo
    IN  IF arg.kind # "array" THEN Threw
        ELSE [threw |-> FALSE,
              isPremium |-> \E i \in 1..Len(arg.items) : isActive(arg.items[i], t),
              latestTransaction |->
                  IF Len(arg.items) = 0 THEN NullEntry ELSE arg.items[1],
              latestIndex |-> IF Len(arg.items) = 0 THEN 0 ELSE 1]

\* determineSubscriptionStatus(latestReceiptInfo = []) with Date.now() = t.
\* latestIndex is the position in the argument of the object returned as
\* latestTransaction (0 when it is null): the identity of that object.
determineSubscriptionStatus(latestReceiptInfo, t) ==
    LET arg == IF latestReceiptInfo.kind = "undefined" THEN Array(<<>>)
               ELSE latestReceiptInfo
        items == arg.items
    IN  IF arg.kind # "array"
        THEN [threw |-> FALSE, isPremium |-> FALSE,
              latestTransaction |-> NullEntry, latestIndex |-> 0]
        ELSE IF SortThrows(items) THEN Threw
        ELSE LET order == sortedByExpiry(items)
             IN  IF FindThrows(items, order, t) THEN Threw
                 ELSE [threw |-> FALSE,
                       isPremium |-> \E i \in 1..Len(order) : isActive(items[order[i]], t),
                       latestTransaction |->
                           IF Len(order) = 0 THEN NullEntry ELSE items[order[1]],
                       latestIndex |-> IF Len(order) = 0 THEN 0 ELSE order[1]]

(***************************************************************************)
(* The resolver on its own: every argument within the bounds, every        *)
(* evaluation time, one call.                                              *)
(***************************************************************************)
Entries == {Transaction("p1", v) : v \in ExpiryValues} \cup {NullEntry}

Arguments ==
    {UndefinedValue, NullValue, NonArrayValue}
        \cup {Array(items) : items \in UNION {[1..n -> Entries] : n \in 0..MaxLen}}

NotCalled == [called |-> FALSE]
Returned(result) == [called |-> TRUE, result |-> result]

\* the requests the server may be handling at once
Requests == {"r1", "r2"}

NoBody == [receipt_data |-> "", receiptData |-> "", receipt |-> "",
           isSandbox |-> FALSE, productId |-> ""]

HandlerIdle ==
    /\ pc = [r \in Requests |-> "idle"]
    /\ body = [r \in Requests |-> NoBody]
    /\ timestamp = [r \in Requests |-> 0]
    /\ calls = [r \in Requests |-> <<>>]
    /\ replies = [r \in Requests |-> <<>>]
    /\ res = [r \in Requests |-> <<>>]
    /\ clock = 0

ResolverIdle ==
    /\ transactions = UndefinedValue
    /\ now = 0
    /\ subscription = NotCalled

InitResolve ==
    /\ transactions \in Arguments
    /\ now \in 0..MaxNow
    /\ subscription = NotCalled
    /\ HandlerIdle

Resolve ==
    /\ ~subscription.called
    /\ subscription' = Returned(determineSubscriptionStatus(transactions, now))
    /\ UNCHANGED <<transactions, now>>
    /\ UNCHANGED handlerVars

NextResolve == Resolve

SpecResolve == InitResolve /\ [][NextResolve]_vars

(***************************************************************************)
(* POST /verify-receipt of src/server.cjs.                                 *)
(*                                                                         *)
(* Strings are TLA+ strings; Undefined stands for an absent field and Null *)
(* for null.                                                               *)
(***************************************************************************)
Undefined == "<undefined>"
Null == "<null>"
Truthy(s) == s \notin {Undefined, Null, ""}
\* a || b on strings
Or(a, b) == IF Truthy(a) THEN a ELSE b
JsString(s) == [t |-> "string", s |-> s]
\* a number is truthy unless it is 0 or NaN; undefined is not
TruthyNumber(x) == x.t = "Infinity" \/ (x.t = "number" /\ x.n # 0)

SHARED_SECRET == "APP_SHARED_SECRET"

APPLE_ENDPOINTS ==
    [production |-> "https://buy.itunes.apple.com/verifyReceipt",
     sandbox |-> "https://sandbox.itunes.apple.com/verifyReceipt"]

APPLE_STATUS_MESSAGES ==
    (21000 :> "The App Store could not read the JSON object you provided.")
 @@ (21002 :> "The data in the receipt-data property was malformed or missing.")
 @@ (21003 :> "The receipt could not be authenticated.")
 @@ (21004 :> "The shared secret you provided does not match the one on file.")
 @@ (21005 :> "The receipt server is not currently available.")
 @@ (21006 :> "The receipt is valid, but the subscription has expired.")
 @@ (21007 :> "This receipt is from the test environment. Retry against the sandbox server.")
 @@ (21008 :> "This receipt is from the production environment. Retry against the production server.")

\* APPLE_STATUS_MESSAGES[status]: undefined for a key the table lacks
StatusMessage(status) ==
    IF status.t = "number" /\ status.n \in DOMAIN APPLE_STATUS_MESSAGES
    THEN APPLE_STATUS_MESSAGES[status.n]
    ELSE Undefined

\* lines 115-116
receiptData(b) == Or(b.receipt_data, Or(b.receiptData, b.receipt))

\* lines 131-135
requestBody(b) ==
    [receipt_data |-> receiptData(b),
     password |-> SHARED_SECRET,
     exclude_old_transactions |-> TRUE]

\* lines 137-141: the call axios.post is given
attemptValidation(endpoint, b) ==
    [endpoint |-> endpoint, body |-> requestBody(b), timeout |-> 10000]

\* lines 144-146
firstEndpoint(b) ==
    IF b.isSandbox THEN APPLE_ENDPOINTS.sandbox ELSE APPLE_ENDPOINTS.production

\* lines 120-129
MissingReceiptResponse(ts) ==
    [http |-> 400, success |-> FALSE, isPremium |-> FALSE, status |-> Num(400),
     message |-> "Missing receipt data. Provide receipt-data, receiptData, or receipt in the JSON body.",
     timestamp |-> ts]

\* lines 187-202: the catch block
ErrorResponse(error, ts) ==
    LET appleStatus == error.data_status
        message == Or(error.data_message,
                      Or(StatusMessage(appleStatus),
                         Or(error.message, "Unexpected error during receipt validation.")))
    IN  [http |-> 500, success |-> FALSE, isPremium |-> FALSE,
         status |-> IF TruthyNumber(appleStatus) THEN appleStatus
                    ELSE JsString("REQUEST_FAILED"),
         message |-> message, timestamp |-> ts]

\* what the try block throws by itself: reading a property of null
TypeError ==
    [response |-> FALSE, data_status |-> Missing, data_message |-> Undefined,
     message |-> "Cannot read properties of null"]

NullData == [isNull |-> TRUE]

\* lines 160-172
SuccessResponse(b, data, sub, ts) ==
    [http |-> 200, success |-> TRUE, isPremium |-> sub.isPremium,
     environment |-> data.environment,
     latestReceipt |-> Or(data.latest_receipt, Null),
     latestTransaction |-> sub.latestTransaction,
     pendingRenewalInfo |-> Or(data.pending_renewal_info, Null),
     productId |-> Or(b.productId,
                      Or(IF IsNull(sub.latestTransaction) THEN Undefined
                         ELSE sub.latestTransaction.product_id, Null)),
     timestamp |-> ts,
     message |-> "Receipt validated successfully."]

\* RejectionResponse that never reports a premium status
RejectionResponseNeverPremium(b, data, sub, ts) ==
    [http |-> 400, success |-> FALSE, isPremium |-> FALSE,
     status |-> data.status,
     environment |-> Or(data.environment, IF b.isSandbox THEN "Sandbox" ELSE Null),
     message |-> Or(StatusMessage(data.status),
                    "Apple receipt validation failed with an unknown status."),
     latestTransaction |-> sub.latestTransaction,
     timestamp |-> ts]

\* RejectionResponse with one fixed message in place of the table lookup
RejectionResponseFixedMessage(b, data, sub, ts) ==
    [http |-> 400, success |-> FALSE, isPremium |-> sub.isPremium,
     status |-> data.status,
     environment |-> Or(data.environment, IF b.isSandbox THEN "Sandbox" ELSE Null),
     message |-> "Apple receipt validation failed",
     latestTransaction |-> sub.latestTransaction,
     timestamp |-> ts]

\* lines 174-186
RejectionResponse(b, data, sub, ts) ==
    [http |-> 400, success |-> FALSE, isPremium |-> sub.isPremium,
     status |-> data.status,
     environment |-> Or(data.environment, IF b.isSandbox THEN "Sandbox" ELSE Null),
     message |-> Or(StatusMessage(data.status),
                    "Apple receipt validation failed with an unknown status."),
     latestTransaction |-> sub.latestTransaction,
     timestamp |-> ts]

\* lines 156-186, and the catch block when they throw: the response built
\* from the final upstream body data, with Date.now() = t
FinalResponse(b, data, ts, t) ==
    IF IsNull(data) THEN ErrorResponse(TypeError, ts)
    ELSE LET sub == determineSubscriptionStatus(data.latest_receipt_info, t)
         IN  IF sub.threw THEN ErrorResponse(TypeError, ts)
             ELSE IF data.status = Num(0) THEN SuccessResponse(b, data, sub, ts)
             ELSE RejectionResponse(b, data, sub, ts)

\* line 150: whether the first response sends the request on to Sandbox
redirects(data, endpoint) ==
    /\ ~IsNull(data)
    /\ data.status = Num(21007)
    /\ endpoint # APPLE_ENDPOINTS.sandbox

(***************************************************************************)
(* What a request and the upstream service may hold.                       *)
(***************************************************************************)
Bodies ==
    [receipt_data : {Undefined, "", "receipt-A"},
     receiptData : {Undefined, "receipt-B"},
     receipt : {Undefined, "", "receipt-C"},
     isSandbox : BOOLEAN,
     productId : {Undefined, "product-X"}]

UpstreamStatuses ==
    {Missing, Num(0), Num(21010)} \cup {Num(n) : n \in DOMAIN APPLE_STATUS_MESSAGES}

\* environment, latest_receipt_info, latest_receipt, pending_renewal_info
UpstreamContents ==
    { <<"Production", UndefinedValue, Undefined, Undefined>>,
      <<"Sandbox", Array(<<Transaction("p1", Num(MaxClock))>>), "latest-receipt", "renewals">>,
      <<Undefined, Array(<<Transaction("p1", Num(0)), Transaction("p2", Num(MaxClock + 1))>>),
        Undefined, "renewals">>,
      <<"Sandbox", Array(<<NullEntry>>), "latest-receipt", Undefined>>,
      <<"Production", NonArrayValue, Undefined, Undefined>> }

\* the bodies an upstream response may carry; NullData is the JSON body null
UpstreamData ==
    {[status |-> st, environment |-> c[1], latest_receipt_info |-> c[2],
      latest_receipt |-> c[3], pending_renewal_info |-> c[4]] :
        st \in UpstreamStatuses, c \in UpstreamContents}
    \cup {NullData}

\* the ways axios.post rejects: no response (timeout, network), or an HTTP
\* error status whose body carries a status or a message
UpstreamErrors ==
    { [response |-> FALSE, data_status |-> Missing, data_message |-> Undefined,
       message |-> "timeout of 10000ms exceeded"],
      [response |-> FALSE, data_status |-> Missing, data_message |-> Undefined,
       message |-> "Network Error"],
      [response |-> FALSE, data_status |-> Missing, data_message |-> Undefined,
       message |-> ""],
      [response |-> TRUE, data_status |-> Num(21007), data_message |-> Undefined,
       message |-> "Request failed with status code 503"],
      [response |-> TRUE, data_status |-> Num(21010), data_message |-> Undefined,
       message |-> "Request failed with status code 500"],
      [response |-> TRUE, data_status |-> Missing, data_message |-> "upstream unavailable",
       message |-> "Request failed with status code 502"] }

(***************************************************************************)
(* The handler, one action per stretch between two awaits.                 *)
(***************************************************************************)
\* VerifyReceipt with the receipt test of line 120 narrowed to undefined: an
\* empty receipt is sent upstream
VerifyReceiptUndefinedOnly(r, b) ==
    /\ pc[r] = "idle"
    /\ body' = [body EXCEPT ![r] = b]
    /\ timestamp' = [timestamp EXCEPT ![r] = clock]
    /\ IF receiptData(b) = Undefined
       THEN /\ res' = [res EXCEPT ![r] = Append(@, MissingReceiptResponse(clock))]
            /\ pc' = [pc EXCEPT ![r] = "done"]
            /\ UNCHANGED calls
       ELSE /\ calls' = [calls EXCEPT ![r] = Append(@, attemptValidation(firstEndpoint(b), b))]
            /\ pc' = [pc EXCEPT ![r] = "awaitFirst"]
            /\ UNCHANGED res
    /\ UNCHANGED <<replies, clock>>
    /\ UNCHANGED resolverVars

\* VerifyReceipt issuing the Sandbox call together with the Production call
VerifyReceiptSpeculative(r, b) ==
    /\ pc[r] = "idle"
    /\ body' = [body EXCEPT ![r] = b]
    /\ timestamp' = [timestamp EXCEPT ![r] = clock]
    /\ IF ~Truthy(receiptData(b))
       THEN /\ res' = [res EXCEPT ![r] = Append(@, MissingReceiptResponse(clock))]
            /\ pc' = [pc EXCEPT ![r] = "done"]
            /\ UNCHANGED calls
       ELSE /\ calls' = [calls EXCEPT ![r] =
                  IF b.isSandbox
                  THEN <<attemptValidation(APPLE_ENDPOINTS.sandbox, b)>>
                  ELSE <<attemptValidation(APPLE_ENDPOINTS.production, b),
                         attemptValidation(APPLE_ENDPOINTS.sandbox, b)>>]
            /\ pc' = [pc EXCEPT ![r] = "awaitFirst"]
            /\ UNCHANGED res
    /\ UNCHANGED <<replies, clock>>
    /\ UNCHANGED resolverVars

\* lines 113-147: the request arrives; answered at once without a receipt,
\* otherwise the first call is issued
VerifyReceipt(r, b) ==
    /\ pc[r] = "idle"
    /\ body' = [body EXCEPT ![r] = b]
    /\ timestamp' = [timestamp EXCEPT ![r] = clock]
    /\ IF ~Truthy(receiptData(b))
       THEN /\ res' = [res EXCEPT ![r] = Append(@, MissingReceiptResponse(clock))]
            /\ pc' = [pc EXCEPT ![r] = "done"]
            /\ UNCHANGED calls
       ELSE /\ calls' = [calls EXCEPT ![r] = Append(@, attemptValidation(firstEndpoint(b), b))]
            /\ pc' = [pc EXCEPT ![r] = "awaitFirst"]
            /\ UNCHANGED res
    /\ UNCHANGED <<replies, clock>>
    /\ UNCHANGED resolverVars

\* FirstResponse building a fresh body for the redirect call, one that asks
\* for the old transactions too
FirstResponseRebuilding(r, data) ==
    /\ pc[r] = "awaitFirst"
    /\ replies' = [replies EXCEPT ![r] = Append(@, data)]
    /\ IF redirects(data, calls[r][1].endpoint)
       THEN /\ calls' = [calls EXCEPT ![r] =
                  Append(@, [attemptValidation(APPLE_ENDPOINTS.sandbox, body[r])
                                EXCEPT !.body.exclude_old_transactions = FALSE])]
            /\ pc' = [pc EXCEPT ![r] = "awaitRedirect"]
            /\ UNCHANGED res
       ELSE /\ res' = [res EXCEPT ![r] =
                          Append(@, FinalResponse(body[r], data, timestamp[r], clock))]
            /\ pc' = [pc EXCEPT ![r] = "done"]
            /\ UNCHANGED calls
    /\ UNCHANGED <<body, timestamp, clock>>
    /\ UNCHANGED resolverVars

\* FirstResponse redirecting in both directions: 21008 from Sandbox is
\* retried against Production
FirstResponseSymmetric(r, data) ==
    /\ pc[r] = "awaitFirst"
    /\ replies' = [replies EXCEPT ![r] = Append(@, data)]
    /\ IF \/ redirects(data, calls[r][1].endpoint)
          \/ /\ ~IsNull(data)
             /\ data.status = Num(21008)
             /\ calls[r][1].endpoint = APPLE_ENDPOINTS.sandbox
       THEN /\ calls' = [calls EXCEPT ![r] =
                  Append(@, attemptValidation(
                      IF calls[r][1].endpoint = APPLE_ENDPOINTS.sandbox
                      THEN APPLE_ENDPOINTS.production ELSE APPLE_ENDPOINTS.sandbox,
                      body[r]))]
            /\ pc' = [pc EXCEPT ![r] = "awaitRedirect"]
            /\ UNCHANGED res
       ELSE /\ res' = [res EXCEPT ![r] =
                          Append(@, FinalResponse(body[r], data, timestamp[r], clock))]
            /\ pc' = [pc EXCEPT ![r] = "done"]
            /\ UNCHANGED calls
    /\ UNCHANGED <<body, timestamp, clock>>
    /\ UNCHANGED resolverVars

\* FirstResponse with requestBody kept in one variable shared by all
\* requests: the redirect call carries the body of the other request once
\* that one has arrived
FirstResponseSharedBody(r, data) ==
    /\ pc[r] = "awaitFirst"
    /\ replies' = [replies EXCEPT ![r] = Append(@, data)]
    /\ IF redirects(data, calls[r][1].endpoint)
       THEN /\ calls' = [calls EXCEPT ![r] =
                  Append(@, attemptValidation(APPLE_ENDPOINTS.sandbox,
                      LET other == CHOOSE o \in Requests : o # r
                      IN  IF pc[other] # "idle" THEN body[other] ELSE body[r]))]
            /\ pc' = [pc EXCEPT ![r] = "awaitRedirect"]
            /\ UNCHANGED res
       ELSE /\ res' = [res EXCEPT ![r] =
                          Append(@, FinalResponse(body[r], data, timestamp[r], clock))]
            /\ pc' = [pc EXCEPT ![r] = "done"]
            /\ UNCHANGED calls
    /\ UNCHANGED <<body, timestamp, clock>>
    /\ UNCHANGED resolverVars

\* lines 147-186: the first call resolves with body data
FirstResponse(r, data) ==
    /\ pc[r] = "awaitFirst"
    /\ replies' = [replies EXCEPT ![r] = Append(@, data)]
    /\ IF redirects(data, calls[r][1].endpoint)
       THEN /\ calls' = [calls EXCEPT ![r] =
                            Append(@, attemptValidation(APPLE_ENDPOINTS.sandbox, body[r]))]
            /\ pc' = [pc EXCEPT ![r] = "awaitRedirect"]
            /\ UNCHANGED res
       ELSE /\ res' = [res EXCEPT ![r] =
                          Append(@, FinalResponse(body[r], data, timestamp[r], clock))]
            /\ pc' = [pc EXCEPT ![r] = "done"]
            /\ UNCHANGED calls
    /\ UNCHANGED <<body, timestamp, clock>>
    /\ UNCHANGED resolverVars

\* RedirectResponse without the assignment of line 153: the answer is built
\* from the body of the first response
RedirectResponseFromFirst(r, data) ==
    /\ pc[r] = "awaitRedirect"
    /\ replies' = [replies EXCEPT ![r] = Append(@, data)]
    /\ res' = [res EXCEPT ![r] =
                  Append(@, FinalResponse(body[r], replies[r][1], timestamp[r], clock))]
    /\ pc' = [pc EXCEPT ![r] = "done"]
    /\ UNCHANGED <<body, timestamp, calls, clock>>
    /\ UNCHANGED resolverVars

\* RedirectResponse as a retry loop: another 21007 is sent to Sandbox again
RedirectResponseRetrying(r, data) ==
    /\ pc[r] = "awaitRedirect"
    /\ replies' = [replies EXCEPT ![r] = Append(@, data)]
    /\ IF ~IsNull(data) /\ data.status = Num(21007)
       THEN /\ calls' = [calls EXCEPT ![r] =
                            Append(@, attemptValidation(APPLE_ENDPOINTS.sandbox, body[r]))]
            /\ UNCHANGED <<res, pc>>
       ELSE /\ res' = [res EXCEPT ![r] =
                          Append(@, FinalResponse(body[r], data, timestamp[r], clock))]
            /\ pc' = [pc EXCEPT ![r] = "done"]
            /\ UNCHANGED calls
    /\ UNCHANGED <<body, timestamp, clock>>
    /\ UNCHANGED resolverVars

\* lines 152-186: the call to Sandbox resolves with body data
RedirectResponse(r, data) ==
    /\ pc[r] = "awaitRedirect"
    /\ replies' = [replies EXCEPT ![r] = Append(@, data)]
    /\ res' = [res EXCEPT ![r] =
                  Append(@, FinalResponse(body[r], data, timestamp[r], clock))]
    /\ pc' = [pc EXCEPT ![r] = "done"]
    /\ UNCHANGED <<body, timestamp, calls, clock>>
    /\ UNCHANGED resolverVars

\* CallRejected without the catch block: the rejection is an unhandled
\* fault and no response is sent
CallRejectedUnhandled(r, error) ==
    /\ pc[r] \in {"awaitFirst", "awaitRedirect"}
    /\ pc' = [pc EXCEPT ![r] = "failed"]
    /\ UNCHANGED <<body, timestamp, calls, replies, res, clock>>
    /\ UNCHANGED resolverVars

\* CallRejected reading the status of the error body as a response status:
\* a failed first call whose body carries 21007 is sent on to Sandbox
CallRejectedRedirecting(r, error) ==
    /\ pc[r] \in {"awaitFirst", "awaitRedirect"}
    /\ IF pc[r] = "awaitFirst" /\ error.data_status = Num(21007)
       THEN /\ calls' = [calls EXCEPT ![r] =
                            Append(@, attemptValidation(APPLE_ENDPOINTS.sandbox, body[r]))]
            /\ pc' = [pc EXCEPT ![r] = "awaitRedirect"]
            /\ UNCHANGED res
       ELSE /\ res' = [res EXCEPT ![r] = Append(@, ErrorResponse(error, timestamp[r]))]
            /\ pc' = [pc EXCEPT ![r] = "failed"]
            /\ UNCHANGED calls
    /\ UNCHANGED <<body, timestamp, replies, clock>>
    /\ UNCHANGED resolverVars

\* lines 187-202: the awaited call rejects (timeout, network failure, HTTP
\* error status) and the catch block answers
CallRejected(r, error) ==
    /\ pc[r] \in {"awaitFirst", "awaitRedirect"}
    /\ res' = [res EXCEPT ![r] = Append(@, ErrorResponse(error, timestamp[r]))]
    /\ pc' = [pc EXCEPT ![r] = "failed"]
    /\ UNCHANGED <<body, timestamp, calls, replies, clock>>
    /\ UNCHANGED resolverVars

\* time passes
Tick ==
    /\ clock < MaxClock
    /\ clock' = clock + 1
    /\ UNCHANGED <<pc, body, timestamp, calls, replies, res>>
    /\ UNCHANGED resolverVars

Init == ResolverIdle /\ HandlerIdle

\* one request handled from arrival to response
Handled == {"r1"}

Next ==
    \/ \E r \in Handled, b \in Bodies : VerifyReceipt(r, b)
    \/ \E r \in Handled, data \in UpstreamData : FirstResponse(r, data)
    \/ \E r \in Handled, data \in UpstreamData : RedirectResponse(r, data)
    \/ \E r \in Handled, error \in UpstreamErrors : CallRejected(r, error)
    \/ Tick

Spec == Init /\ [][Next]_vars

(***************************************************************************)
(* The same handler when every outbound call is eventually answered:       *)
(* axios.post resolves, or rejects at the latest when its timeout of       *)
(* 10000 ms (line 140) expires.                                            *)
(***************************************************************************)
UpstreamAnswers(r) ==
    \/ \E data \in UpstreamData : FirstResponse(r, data)
    \/ \E data \in UpstreamData : RedirectResponse(r, data)
    \/ \E error \in UpstreamErrors : CallRejected(r, error)

SpecLive == Init /\ [][Next]_vars /\ \A r \in Handled : WF_vars(UpstreamAnswers(r))

(***************************************************************************)
(* Two requests handled at once: their steps interleave in every order.    *)
(* Each request draws its body and its upstream answers from smaller sets. *)
(***************************************************************************)
ConcurrentBodies ==
    { [receipt_data |-> "receipt-A", receiptData |-> Undefined, receipt |-> Undefined,
       isSandbox |-> FALSE, productId |-> Undefined],
      [receipt_data |-> Undefined, receiptData |-> "receipt-B", receipt |-> Undefined,
       isSandbox |-> TRUE, productId |-> "product-X"],
      [receipt_data |-> "", receiptData |-> Undefined, receipt |-> Undefined,
       isSandbox |-> FALSE, productId |-> Undefined] }

ConcurrentData ==
    {[status |-> st, environment |-> c[1], latest_receipt_info |-> c[2],
      latest_receipt |-> c[3], pending_renewal_info |-> c[4]] :
        st \in {Num(0), Num(21004), Num(21007)},
        c \in { <<"Production", UndefinedValue, Undefined, Undefined>>,
                <<"Sandbox", Array(<<Transaction("p1", Num(MaxClock))>>),
                  "latest-receipt", "renewals">> }}
    \cup {NullData}

ConcurrentErrors ==
    { [response |-> FALSE, data_status |-> Missing, data_message |-> Undefined,
       message |-> "timeout of 10000ms exceeded"],
      [response |-> TRUE, data_status |-> Num(21007), data_message |-> Undefined,
       message |-> "Request failed with status code 503"] }

NextConcurrent ==
    \/ \E r \in Requests, b \in ConcurrentBodies : VerifyReceipt(r, b)
    \/ \E r \in Requests, data \in ConcurrentData : FirstResponse(r, data)
    \/ \E r \in Requests, data \in ConcurrentData : RedirectResponse(r, data)
    \/ \E r \in Requests, error \in ConcurrentErrors : CallRejected(r, error)
    \/ Tick

SpecConcurrent == Init /\ [][NextConcurrent]_vars

(***************************************************************************)
(* POST /verify-receipt of src/unnamed/part_000, the earlier revision of   *)
(* the handler: no receipt field, no resolver, and a redirect that does    *)
(* not look at the endpoint of the first call.                             *)
(***************************************************************************)
\* line 28
legacyReceiptData(b) == Or(b.receipt_data, b.receiptData)

\* lines 35-39 and 50-53
legacyPost(endpoint, b) ==
    [endpoint |-> endpoint,
     body |-> [receipt_data |-> legacyReceiptData(b),
               password |-> SHARED_SECRET,
               exclude_old_transactions |-> TRUE],
     timeout |-> 10000]

\* lines 67-85, and the catch block of lines 86-92 when data is null
LegacyFinalResponse(data) ==
    IF IsNull(data)
    THEN [http |-> 500, success |-> FALSE, error |-> TypeError.message]
    ELSE IF data.status = Num(0)
    THEN [http |-> 200, success |-> TRUE, environment |-> data.environment,
          latest_receipt_info |-> data.latest_receipt_info,
          pending_renewal_info |-> data.pending_renewal_info]
    ELSE [http |-> 400, success |-> FALSE, status |-> data.status,
          environment |-> data.environment,
          message |-> "Apple receipt validation failed", raw |-> data]

\* line 58: the redirect test of the earlier revision
legacyRedirects(data) == ~IsNull(data) /\ data.status = Num(21007)

\* lines 27-53
LegacyVerifyReceipt(r, b) ==
    /\ pc[r] = "idle"
    /\ body' = [body EXCEPT ![r] = b]
    /\ IF ~Truthy(legacyReceiptData(b))
       THEN /\ res' = [res EXCEPT ![r] =
                          Append(@, [http |-> 400, success |-> FALSE,
                                     error |-> "Missing receipt-data"])]
            /\ pc' = [pc EXCEPT ![r] = "done"]
            /\ UNCHANGED calls
       ELSE /\ calls' = [calls EXCEPT ![r] = Append(@, legacyPost(firstEndpoint(b), b))]
            /\ pc' = [pc EXCEPT ![r] = "awaitFirst"]
            /\ UNCHANGED res
    /\ UNCHANGED <<timestamp, replies, clock>>
    /\ UNCHANGED resolverVars

\* lines 55-85
LegacyFirstResponse(r, data) ==
    /\ pc[r] = "awaitFirst"
    /\ replies' = [replies EXCEPT ![r] = Append(@, data)]
    /\ IF legacyRedirects(data)
       THEN /\ calls' = [calls EXCEPT ![r] =
                            Append(@, legacyPost(APPLE_ENDPOINTS.sandbox, body[r]))]
            /\ pc' = [pc EXCEPT ![r] = "awaitRedirect"]
            /\ UNCHANGED res
       ELSE /\ res' = [res EXCEPT ![r] = Append(@, LegacyFinalResponse(data))]
            /\ pc' = [pc EXCEPT ![r] = "done"]
            /\ UNCHANGED calls
    /\ UNCHANGED <<body, timestamp, clock>>
    /\ UNCHANGED resolverVars

\* lines 64-85
LegacyRedirectResponse(r, data) ==
    /\ pc[r] = "awaitRedirect"
    /\ replies' = [replies EXCEPT ![r] = Append(@, data)]
    /\ res' = [res EXCEPT ![r] = Append(@, LegacyFinalResponse(data))]
    /\ pc' = [pc EXCEPT ![r] = "done"]
    /\ UNCHANGED <<body, timestamp, calls, clock>>
    /\ UNCHANGED resolverVars

\* lines 86-92
LegacyCallRejected(r, error) ==
    /\ pc[r] \in {"awaitFirst", "awaitRedirect"}
    /\ res' = [res EXCEPT ![r] =
                  Append(@, [http |-> 500, success |-> FALSE, error |-> error.message])]
    /\ pc' = [pc EXCEPT ![r] = "failed"]
    /\ UNCHANGED <<body, timestamp, calls, replies, clock>>
    /\ UNCHANGED resolverVars

NextLegacy ==
    \/ \E r \in Handled, b \in Bodies : LegacyVerifyReceipt(r, b)
    \/ \E r \in Handled, data \in UpstreamData : LegacyFirstResponse(r, data)
    \/ \E r \in Handled, data \in UpstreamData : LegacyRedirectResponse(r, data)
    \/ \E r \in Handled, error \in UpstreamErrors : LegacyCallRejected(r, error)

SpecLegacy == Init /\ [][NextLegacy]_vars

(***************************************************************************)
(* Claims about the resolver (SpecResolve).                                *)
(***************************************************************************)
\* the argument is an array whose entries are all transaction objects
IsTransactionSeq(arg) ==
    arg.kind = "array" /\ \A i \in 1..Len(arg.items) : ~IsNull(arg.items[i])

\* the transaction's expiration timestamp is a finite number greater than t
Unexpired(entry, t) ==
    entry.expires_date_ms.t = "number" /\ entry.expires_date_ms.n > t

\* the expiration timestamp is 0, missing or non-numeric
AbsentExpiry(entry) ==
    \/ entry.expires_date_ms.t \in {"undefined", "string"}
    \/ entry.expires_date_ms = Num(0)

\* The expiry a transaction counts with when expiries are compared: a
\* missing one counts as 0, an infinite one lies above every finite one, and
\* a non-numeric one counts as nonNumericAs.
ExpiryRank(entry, nonNumericAs) ==
    CASE entry.expires_date_ms.t = "undefined" -> 0
      [] entry.expires_date_ms.t = "number" -> entry.expires_date_ms.n
      [] entry.expires_date_ms.t = "string" -> nonNumericAs
      [] OTHER -> MaxExpiry + 1

\* A non-numeric expiry counts as 0 (already expired) or below every number.
NonNumericReadings == {0, -2}

\* C5: on a sequence of transactions, isPremium is true exactly when some
\* transaction, at whatever position, has an expiration timestamp that is a
\* finite number strictly greater than the evaluation time.
C5_PremiumIffSomeUnexpired ==
    (subscription.called /\ IsTransactionSeq(transactions)) =>
        /\ ~subscription.result.threw
        /\ subscription.result.isPremium <=>
              \E i \in 1..Len(transactions.items) : Unexpired(transactions.items[i], now)

\* the only unexpired transaction is the last one given, after one whose
\* expiry equals the evaluation time
C5_Witness ==
    /\ subscription.called
    /\ IsTransactionSeq(transactions)
    /\ Len(transactions.items) >= 2
    /\ transactions.items[1].expires_date_ms = Num(now)
    /\ \A i \in 1..Len(transactions.items) :
          Unexpired(transactions.items[i], now) <=> i = Len(transactions.items)
    /\ subscription.result.isPremium

\* C6: on a non-empty sequence of transactions, latestTransaction is the
\* transaction with the maximum expiry, the first such in the argument's
\* order, however a non-numeric expiry is ranked. (Violated: a non-numeric
\* expiry compares as a tie with every other, so the sort leaves it, or an
\* entry before it, ahead of a greater expiry.)
C6_LatestIsFirstMaximum ==
    (subscription.called /\ IsTransactionSeq(transactions)
        /\ Len(transactions.items) > 0) =>
        /\ ~subscription.result.threw
        /\ subscription.result.latestIndex \in 1..Len(transactions.items)
        /\ LET items == transactions.items
               k == subscription.result.latestIndex
           IN  /\ subscription.result.latestTransaction = items[k]
               /\ \E as \in NonNumericReadings :
                     /\ \A j \in 1..Len(items) :
                           ExpiryRank(items[j], as) <= ExpiryRank(items[k], as)
                     /\ \A j \in 1..(k - 1) :
                           ExpiryRank(items[j], as) < ExpiryRank(items[k], as)

\* C7: a transaction whose expiry is 0, missing or non-numeric never makes
\* isPremium true and is latestTransaction only when every transaction of
\* the argument has such an expiry. (Violated: it wins over a negative
\* expiry, and a non-numeric one keeps its place ahead of any expiry.)
C7_AbsentExpiryNeverWins ==
    (subscription.called /\ IsTransactionSeq(transactions)
        /\ ~subscription.result.threw) =>
        LET items == transactions.items
            k == subscription.result.latestIndex
        IN  /\ subscription.result.isPremium =>
                  \E i \in 1..Len(items) :
                      ~AbsentExpiry(items[i]) /\ Unexpired(items[i], now)
            /\ (k > 0 /\ AbsentExpiry(items[k])) =>
                  \A i \in 1..Len(items) : AbsentExpiry(items[i])

\* C8: the resolver returns a status for every argument, malformed entries
\* included; it never throws. (Violated: a null entry throws a TypeError.)
C8_NeverThrows ==
    subscription.called => ~subscription.result.threw

\* C9: an empty sequence, an absent argument or one that is no sequence
\* gives exactly {isPremium: false, latestTransaction: null}.
C9_InactiveDefault ==
    (subscription.called
        /\ (transactions.kind # "array" \/ transactions.items = <<>>)) =>
        /\ ~subscription.result.threw
        /\ subscription.result.isPremium = FALSE
        /\ subscription.result.latestTransaction = NullEntry

\* the argument was null, which is no sequence
C9_Witness ==
    /\ subscription.called
    /\ transactions = NullValue
    /\ ~subscription.result.threw
    /\ ~subscription.result.isPremium

(***************************************************************************)
(* Claims about the handler (Spec, and SpecLegacy for the earlier          *)
(* revision).                                                              *)
(***************************************************************************)
\* the upstream body is a verification result the handler can read: an
\* object, whose transaction list holds no null entry
Readable(data) ==
    /\ ~IsNull(data)
    /\ data.latest_receipt_info.kind = "array" =>
          IsTransactionSeq(data.latest_receipt_info)

\* some transaction of the body's list is unexpired at time t
HasUnexpired(data, t) ==
    /\ data.latest_receipt_info.kind = "array"
    /\ \E i \in 1..Len(data.latest_receipt_info.items) :
          Unexpired(data.latest_receipt_info.items[i], t)

\* tx is an entry of the body's transaction list, or null when it has none
TransactionOf(data, tx) ==
    IF data.latest_receipt_info.kind = "array" /\ data.latest_receipt_info.items # <<>>
    THEN \E i \in 1..Len(data.latest_receipt_info.items) :
            tx = data.latest_receipt_info.items[i]
    ELSE tx = NullEntry

\* the first call went to Production and its response carried status 21007
RedirectCase(r) ==
    /\ Len(calls[r]) >= 1
    /\ calls[r][1].endpoint = APPLE_ENDPOINTS.production
    /\ Len(replies[r]) >= 1
    /\ ~IsNull(replies[r][1])
    /\ replies[r][1].status = Num(21007)

\* C1: when the first call went to Production and its response carried
\* status 21007, exactly one further call is issued, to Sandbox, and the
\* answer is built from the second response: its status, its environment
\* and its transactions.
C1_RedirectAnswersFromSecond ==
    \A r \in Requests :
        RedirectCase(r) =>
            /\ Len(calls[r]) = 2
            /\ calls[r][2].endpoint = APPLE_ENDPOINTS.sandbox
            /\ pc[r] \in {"awaitRedirect", "done", "failed"}
            /\ pc[r] = "awaitRedirect" => res[r] = <<>>
            /\ pc[r] = "done" =>
                  /\ Len(replies[r]) = 2
                  /\ Len(res[r]) = 1
                  /\ LET second == replies[r][2]
                         answer == res[r][1]
                     IN  IF Readable(second)
                         THEN /\ answer.success <=> second.status = Num(0)
                              /\ ~answer.success => answer.status = second.status
                              /\ answer.environment =
                                    IF answer.success THEN second.environment
                                    ELSE Or(second.environment, Null)
                              /\ TransactionOf(second, answer.latestTransaction)
                              /\ \E t \in timestamp[r]..clock :
                                    answer.isPremium <=> HasUnexpired(second, t)
                         ELSE answer.http = 500

\* a redirected request whose two responses differ in status, environment
\* and transactions, answered as a success from the second
C1_Witness ==
    \E r \in Requests :
        /\ RedirectCase(r)
        /\ pc[r] = "done"
        /\ Len(replies[r]) = 2
        /\ Readable(replies[r][2])
        /\ replies[r][1].environment = "Production"
        /\ replies[r][1].latest_receipt_info = UndefinedValue
        /\ replies[r][2].status = Num(0)
        /\ replies[r][2].environment = "Sandbox"
        /\ res[r][1].success
        /\ res[r][1].environment = "Sandbox"
        /\ res[r][1].latestTransaction = Transaction("p1", Num(MaxClock))

\* C2: a second call is issued exactly when the first response carries
\* status 21007 and the first call did not go to Sandbox; every other
\* request makes one call. (Violated by the earlier revision, which
\* redirects whatever endpoint the first call went to.)
C2_SecondCallIffRedirect ==
    \A r \in Requests :
        /\ Len(calls[r]) <= 2
        /\ Len(replies[r]) = 0 => Len(calls[r]) <= 1
        /\ Len(replies[r]) >= 1 =>
              (Len(calls[r]) = 2 <=>
                  /\ ~IsNull(replies[r][1])
                  /\ replies[r][1].status = Num(21007)
                  /\ calls[r][1].endpoint # APPLE_ENDPOINTS.sandbox)

\* C3: no request makes more than two calls; once the response to the
\* redirect call is in, whatever its status, the request is answered with
\* the success or rejection that response maps to and no call follows.
C3_AtMostTwoCalls ==
    \A r \in Requests :
        /\ Len(calls[r]) <= 2
        /\ Len(replies[r]) <= 2
        /\ Len(replies[r]) = 2 =>
              /\ pc[r] = "done"
              /\ Len(calls[r]) = 2
              /\ Len(res[r]) = 1
              /\ Readable(replies[r][2]) =>
                    /\ res[r][1].http = (IF replies[r][2].status = Num(0) THEN 200 ELSE 400)
                    /\ res[r][1].http = 400 => res[r][1].status = replies[r][2].status

\* the response to the redirect call carried 21007 again and was answered
\* as a rejection
C3_Witness ==
    \E r \in Requests :
        /\ Len(replies[r]) = 2
        /\ Readable(replies[r][2])
        /\ replies[r][2].status = Num(21007)
        /\ pc[r] = "done"
        /\ Len(calls[r]) = 2
        /\ res[r][1].http = 400
        /\ res[r][1].status = Num(21007)

\* the body carries no receipt under any of the accepted field names
NoReceipt(b) ==
    /\ b.receipt_data \in {Undefined, ""}
    /\ b.receiptData \in {Undefined, ""}
    /\ b.receipt \in {Undefined, ""}

\* C4: a request without a receipt makes no outbound call and is answered
\* at once with HTTP 400, success false, isPremium false.
C4_MissingReceiptNoCall ==
    \A r \in Requests :
        (pc[r] # "idle" /\ NoReceipt(body[r])) =>
            /\ calls[r] = <<>>
            /\ pc[r] = "done"
            /\ Len(res[r]) = 1
            /\ res[r][1].http = 400
            /\ res[r][1].success = FALSE
            /\ res[r][1].isPremium = FALSE

\* a request whose receipt-data is the empty string, answered with 400
C4_Witness ==
    \E r \in Requests :
        /\ pc[r] = "done"
        /\ body[r].receipt_data = ""
        /\ NoReceipt(body[r])
        /\ calls[r] = <<>>
        /\ Len(res[r]) = 1
        /\ res[r][1].http = 400

\* the message the status table assigns, the generic one outside the table
TableMessage(status) ==
    CASE status = Num(21000) -> "The App Store could not read the JSON object you provided."
      [] status = Num(21002) -> "The data in the receipt-data property was malformed or missing."
      [] status = Num(21003) -> "The receipt could not be authenticated."
      [] status = Num(21004) -> "The shared secret you provided does not match the one on file."
      [] status = Num(21005) -> "The receipt server is not currently available."
      [] status = Num(21006) -> "The receipt is valid, but the subscription has expired."
      [] status = Num(21007) -> "This receipt is from the test environment. Retry against the sandbox server."
      [] status = Num(21008) -> "This receipt is from the production environment. Retry against the production server."
      [] OTHER -> "Apple receipt validation failed with an unknown status."

\* C10: the final upstream status decides the outcome: the answer is a
\* success exactly when that status is 0; for any other status it is a
\* rejection carrying that status and the message the table assigns to it,
\* the generic message for a code outside the table.
C10_StatusDecidesOutcome ==
    \A r \in Requests :
        (pc[r] = "done" /\ Len(replies[r]) >= 1
            /\ Readable(replies[r][Len(replies[r])])) =>
            LET final == replies[r][Len(replies[r])]
                answer == res[r][1]
            IN  /\ Len(res[r]) = 1
                /\ answer.success <=> final.status = Num(0)
                /\ final.status # Num(0) =>
                      /\ answer.http = 400
                      /\ answer.status = final.status
                      /\ answer.message = TableMessage(final.status)

\* a final status 21004 answered with the shared-secret message
C10_Witness ==
    \E r \in Requests :
        /\ pc[r] = "done"
        /\ Len(replies[r]) >= 1
        /\ Readable(replies[r][Len(replies[r])])
        /\ replies[r][Len(replies[r])].status = Num(21004)
        /\ res[r][1].success = FALSE
        /\ res[r][1].status = Num(21004)
        /\ res[r][1].message = "The shared secret you provided does not match the one on file."

\* C11: when an outbound call fails (network error, timeout, HTTP error
\* status), the request is answered with HTTP 500, success false, isPremium
\* false, and no call follows the failed one: every call but the last has
\* been answered by a response, also when the error body carries 21007.
C11_FailedCallAnswered500 ==
    \A r \in Requests :
        /\ pc[r] \in {"awaitFirst", "awaitRedirect", "failed"} =>
              Len(calls[r]) = Len(replies[r]) + 1
        /\ pc[r] \in {"idle", "done"} => Len(calls[r]) = Len(replies[r])
        /\ pc[r] = "failed" =>
              /\ Len(res[r]) = 1
              /\ res[r][1].http = 500
              /\ res[r][1].success = FALSE
              /\ res[r][1].isPremium = FALSE

\* the first call failed with an error body carrying 21007 and the request
\* was answered without a call to Sandbox
C11_Witness ==
    \E r \in Requests :
        /\ pc[r] = "failed"
        /\ Len(calls[r]) = 1
        /\ calls[r][1].endpoint = APPLE_ENDPOINTS.production
        /\ replies[r] = <<>>
        /\ res[r][1].http = 500
        /\ res[r][1].status = Num(21007)

\* the upstream body is no verification result: null, or without a status
Malformed(data) == IsNull(data) \/ data.status.t # "number"

\* C12: a malformed upstream response is always answered as an internal
\* error (HTTP 500), never as a rejection or a success. (Violated: a body
\* without a status is answered as a 400 rejection with the unknown-status
\* message.)
C12_MalformedIsInternalError ==
    \A r \in Requests :
        (pc[r] = "done" /\ Len(replies[r]) >= 1
            /\ Malformed(replies[r][Len(replies[r])])) =>
            /\ Len(res[r]) = 1
            /\ res[r][1].http = 500

\* C13: in every success and every rejection, isPremium and
\* latestTransaction are what determineSubscriptionStatus gives for the
\* transaction list of the final upstream response, at a time between the
\* request's arrival and now.
C13_StatusFromFinalTransactions ==
    \A r \in Requests :
        (pc[r] = "done" /\ Len(replies[r]) >= 1 /\ Len(res[r]) = 1
            /\ res[r][1].http \in {200, 400}) =>
            LET final == replies[r][Len(replies[r])]
                answer == res[r][1]
            IN  /\ ~IsNull(final)
                /\ \E t \in timestamp[r]..clock :
                      LET sub == determineSubscriptionStatus(final.latest_receipt_info, t)
                      IN  /\ ~sub.threw
                          /\ answer.isPremium = sub.isPremium
                          /\ answer.isPremium <=> HasUnexpired(final, t)
                          /\ answer.latestTransaction = sub.latestTransaction

\* a rejection that reports isPremium true, from an unexpired transaction
\* that came with it after a redirect
C13_Witness ==
    \E r \in Requests :
        /\ pc[r] = "done"
        /\ Len(replies[r]) = 2
        /\ Len(res[r]) = 1
        /\ res[r][1].http = 400
        /\ res[r][1].status = Num(21006)
        /\ res[r][1].isPremium
        /\ res[r][1].latestTransaction = Transaction("p2", Num(MaxClock + 1))
        /\ replies[r][1].latest_receipt_info = UndefinedValue

\* the four kinds of response
IsSuccess(answer) == answer.http = 200 /\ answer.success
IsClientInputError(r, answer) ==
    answer.http = 400 /\ ~answer.success /\ calls[r] = <<>>
IsRejection(r, answer) ==
    answer.http = 400 /\ ~answer.success /\ replies[r] # <<>>
IsInternalError(answer) == answer.http = 500 /\ ~answer.success

\* the number of kinds the response is of
Kinds(r, answer) ==
    (IF IsSuccess(answer) THEN 1 ELSE 0)
    + (IF IsClientInputError(r, answer) THEN 1 ELSE 0)
    + (IF IsRejection(r, answer) THEN 1 ELSE 0)
    + (IF IsInternalError(answer) THEN 1 ELSE 0)

\* a request has ended exactly when it has sent its one response, which is
\* of exactly one kind
OneResponseOfOneKind ==
    \A r \in Requests :
        /\ Len(res[r]) <= 1
        /\ pc[r] \in {"done", "failed"} <=> Len(res[r]) = 1
        /\ Len(res[r]) = 1 => Kinds(r, res[r][1]) = 1

\* C14: when every outbound call is eventually answered, every request that
\* arrived eventually sends a response; it never sends two, never ends
\* without one, and the response is exactly one of success, rejection,
\* client-input error and internal error.
C14_EventuallyOneResponse ==
    /\ []OneResponseOfOneKind
    /\ \A r \in Requests : (pc[r] # "idle") ~> (Len(res[r]) = 1)

\* a request answered with an internal error after its redirect call failed
C14_Witness ==
    \E r \in Requests :
        /\ pc[r] = "failed"
        /\ Len(calls[r]) = 2
        /\ Len(replies[r]) = 1
        /\ Len(res[r]) = 1
        /\ IsInternalError(res[r][1])

\* the state of one request
RequestState(r) == <<pc[r], body[r], timestamp[r], calls[r], replies[r], res[r]>>

\* the calls a request's own body and own responses call for
OwnCalls(r) ==
    IF pc[r] = "idle" \/ NoReceipt(body[r]) THEN <<>>
    ELSE LET first == [endpoint |-> IF body[r].isSandbox THEN APPLE_ENDPOINTS.sandbox
                                    ELSE APPLE_ENDPOINTS.production,
                       body |-> requestBody(body[r]), timeout |-> 10000]
         IN  IF /\ Len(replies[r]) >= 1
                /\ ~IsNull(replies[r][1])
                /\ replies[r][1].status = Num(21007)
                /\ ~body[r].isSandbox
             THEN <<first, [first EXCEPT !.endpoint = APPLE_ENDPOINTS.sandbox]>>
             ELSE <<first>>

\* the responses a request's own body and own upstream answers call for
OwnResponse(r) ==
    CASE pc[r] = "done" /\ replies[r] = <<>> ->
            res[r] = <<MissingReceiptResponse(timestamp[r])>>
      [] pc[r] = "done" /\ replies[r] # <<>> ->
            \E t \in timestamp[r]..clock :
                res[r] = <<FinalResponse(body[r], replies[r][Len(replies[r])],
                                         timestamp[r], t)>>
      [] pc[r] = "failed" ->
            \E error \in UpstreamErrors : res[r] = <<ErrorResponse(error, timestamp[r])>>
      [] OTHER -> res[r] = <<>>

\* C15: requests handled at once are independent: under every interleaving
\* the calls a request issues and the response it sends are those its own
\* body, environment hint and upstream answers call for, and no step of one
\* request changes the state of another.
C15_RequestsIndependent ==
    /\ [](\A r \in Requests : calls[r] = OwnCalls(r) /\ OwnResponse(r))
    /\ [][\A r1, r2 \in Requests :
            (RequestState(r1)' # RequestState(r1) /\ RequestState(r2)' # RequestState(r2))
                => r1 = r2]_vars

\* two requests with different bodies in flight at once, one of them already
\* redirected, and a third state where both have been answered differently
C15_Witness ==
    /\ pc["r1"] = "done"
    /\ pc["r2"] = "done"
    /\ body["r1"] # body["r2"]
    /\ Len(calls["r1"]) = 2
    /\ Len(calls["r2"]) = 1
    /\ calls["r1"][2].body.receipt_data = "receipt-A"
    /\ calls["r2"][1].body.receipt_data = "receipt-B"
    /\ res["r1"][1].http = 200
    /\ res["r2"][1].http = 400

\* the calls of a request that have not been answered or rejected yet
InFlight(r) == Len(calls[r]) - Len(replies[r]) - (IF pc[r] = "failed" THEN 1 ELSE 0)

\* C16: the Sandbox redirect call is issued only after the response to the
\* first call has been received: a request never has two calls in flight,
\* and a second call is issued in the step that takes the first response.
C16_RedirectAfterFirstResponse ==
    /\ [](\A r \in Requests :
            /\ InFlight(r) \in {0, 1}
            /\ Len(calls[r]) >= 2 => Len(replies[r]) >= 1)
    /\ [][\A r \in Requests :
            (Len(calls[r]) >= 1 /\ Len(calls[r])' > Len(calls[r])) =>
                /\ InFlight(r) = 1
                /\ Len(replies[r]) = 0
                /\ Len(replies[r])' = 1
                /\ Len(calls[r])' = 2
                /\ calls[r]'[2].endpoint = APPLE_ENDPOINTS.sandbox]_vars

\* the first response is in and the redirect call alone is in flight
C16_Witness ==
    \E r \in Requests :
        /\ pc[r] = "awaitRedirect"
        /\ Len(calls[r]) = 2
        /\ Len(replies[r]) = 1
        /\ InFlight(r) = 1
        /\ calls[r][2].endpoint = APPLE_ENDPOINTS.sandbox

\* C18: every call carries the caller's receipt payload, the configured
\* shared secret and exclude-old-transactions = true, and the body sent to
\* Sandbox on redirect is the body first sent to Production.
C18_SameBodyOnEveryCall ==
    \A r \in Requests :
        /\ \A i \in 1..Len(calls[r]) :
              /\ calls[r][i].body.receipt_data =
                    (IF Truthy(body[r].receipt_data) THEN body[r].receipt_data
                     ELSE IF Truthy(body[r].receiptData) THEN body[r].receiptData
                     ELSE body[r].receipt)
              /\ Truthy(calls[r][i].body.receipt_data)
              /\ calls[r][i].body.password = SHARED_SECRET
              /\ calls[r][i].body.exclude_old_transactions = TRUE
              /\ DOMAIN calls[r][i].body =
                    {"receipt_data", "password", "exclude_old_transactions"}
        /\ Len(calls[r]) = 2 => calls[r][2].body = calls[r][1].body

\* a redirected request whose payload came in the field receipt
C18_Witness ==
    \E r \in Requests :
        /\ Len(calls[r]) = 2
        /\ calls[r][1].endpoint = APPLE_ENDPOINTS.production
        /\ calls[r][2].endpoint = APPLE_ENDPOINTS.sandbox
        /\ calls[r][2].body.receipt_data = "receipt-C"
        /\ body[r].receipt_data = ""

\* C19: the redirect goes one way: Production is contacted as the first call
\* of a request only; a request first sent to Sandbox that is answered with
\* status 21008 makes no further call and is answered with a rejection
\* carrying 21008 and the message the table assigns to it.
C19_RedirectOneWay ==
    \A r \in Requests :
        /\ \A i \in 1..Len(calls[r]) :
              calls[r][i].endpoint = APPLE_ENDPOINTS.production => i = 1
        /\ ( /\ Len(calls[r]) >= 1
             /\ calls[r][1].endpoint = APPLE_ENDPOINTS.sandbox
             /\ Len(replies[r]) >= 1
             /\ Readable(replies[r][1])
             /\ replies[r][1].status = Num(21008) ) =>
                /\ Len(calls[r]) = 1
                /\ Len(replies[r]) = 1
                /\ pc[r] = "done"
                /\ Len(res[r]) = 1
                /\ res[r][1].http = 400
                /\ res[r][1].success = FALSE
                /\ res[r][1].status = Num(21008)
                /\ res[r][1].message =
                      "This receipt is from the production environment. Retry against the production server."

\* a request sent to Sandbox first and rejected with 21008
C19_Witness ==
    \E r \in Requests :
        /\ body[r] # NoBody
        /\ body[r].isSandbox
        /\ Len(calls[r]) = 1
        /\ calls[r][1].endpoint = APPLE_ENDPOINTS.sandbox
        /\ Len(replies[r]) = 1
        /\ Readable(replies[r][1])
        /\ replies[r][1].status = Num(21008)
        /\ Len(res[r]) = 1
        /\ res[r][1].http = 400
        /\ res[r][1].status = Num(21008)

\* the expiry of the transaction, as the code reads it, is not strictly
\* greater than t
Expired(entry, t) == ~Greater(ExpiryNumber(entry.expires_date_ms), Num(t))

\* C17: the resolver can return isPremium = true together with a
\* latestTransaction that is itself expired; whenever it does, the
\* entitlement comes from a different transaction of the same sequence, one
\* that is still valid.
C17_PremiumWithExpiredLatest ==
    (subscription.called /\ IsTransactionSeq(transactions)
        /\ ~subscription.result.threw
        /\ subscription.result.isPremium
        /\ Expired(subscription.result.latestTransaction, now)) =>
        LET items == transactions.items
            k == subscription.result.latestIndex
        IN  /\ k \in 1..Len(items)
            /\ subscription.result.latestTransaction = items[k]
            /\ ~Unexpired(items[k], now)
            /\ \E i \in 1..Len(items) : i # k /\ Unexpired(items[i], now)

\* isPremium is true, the latest transaction is expired and a later entry of
\* the argument is the one still valid
C17_Witness ==
    /\ subscription.called
    /\ IsTransactionSeq(transactions)
    /\ ~subscription.result.threw
    /\ subscription.result.isPremium
    /\ subscription.result.latestIndex = 1
    /\ Expired(subscription.result.latestTransaction, now)
    /\ Len(transactions.items) = 2
    /\ Unexpired(transactions.items[2], now)

====
